---- MODULE Spec2Model ----
(***************************************************************************)
(* The three text-to-speech adapters of open_llm_vtuber/tts:               *)
(*   cartesia_tts.py  (cloud API),                                         *)
(*   piper_tts.py     (local neural model),                                *)
(*   voicevox_tts.py  (HTTP synthesis server).                             *)
(* Each generate_audio call is a process over a shared cache directory.    *)
(* A step of a call runs up to and including its next operation on the     *)
(* file system (open, write of one chunk, remove); the requests and the    *)
(* exception handling in between touch nothing another call can see and    *)
(* belong to the step they precede or follow.  Spec runs the constructors  *)
(* and then the calls one after the other; ConcSpec runs the calls of      *)
(* already constructed engines in any interleaving.                        *)
(***************************************************************************)
EXTENDS Integers, Sequences, FiniteSets, TLC

\* ------------------------------------------------------------------ bounds
NumCalls == 2     \* generate_audio calls made during one run
MaxChunks == 2    \* chunks a provider streams for one utterance

Calls == 1..NumCalls

\* ------------------------------------------------------------ input values
None == "None"
Stems == {"greet", "temp"}
Texts == {"hello"}
OutputFormats == {"wav", "mp3"}
\* prosody scales in hundredths (1.2 is 120)
SpeedValues == {100, 120}

ScaleFields == {"speedScale", "pitchScale", "intonationScale", "volumeScale"}

\* what the server's /audio_query may answer with a 2xx status
NoJson == [kind |-> "none"]
FullQuery ==
    [kind |-> "dict",
     obj |-> [speedScale |-> 90, pitchScale |-> 5, intonationScale |-> 80,
              volumeScale |-> 70, accent_phrases |-> 7,
              outputSamplingRate |-> 24]]
BareQuery == [kind |-> "dict", obj |-> [accent_phrases |-> 7]]
ListQuery == [kind |-> "list"]
NotJson == [kind |-> "notjson"]
QueryBodies == {FullQuery, BareQuery, ListQuery, NotJson}
HttpOutcomes == {"neterr", "non2xx", "2xx"}

VARIABLES
    CARTESIA_AVAILABLE,  \* module flag set by the guarded import
    PIPER_AVAILABLE,     \* module flag set by the guarded import
    model_on_disk,       \* os.path.exists(model_path)
    cartesia,            \* the cloud TTSEngine instance
    piper,               \* the local-model TTSEngine instance
    voicevox,            \* the HTTP-server TTSEngine instance
    call,                \* one record per generate_audio call
    fs,                  \* files of the cache directory: path -> data
    cacheDir,            \* the cache directory exists
    nextUid              \* next generated file name

vars == <<CARTESIA_AVAILABLE, PIPER_AVAILABLE, model_on_disk, cartesia, piper,
          voicevox, call, fs, cacheDir, nextUid>>

env == <<CARTESIA_AVAILABLE, PIPER_AVAILABLE, model_on_disk>>
engines == <<cartesia, piper, voicevox>>

\* ------------------------------------------------------------ file system
Chunk(c, i) == [src |-> c, idx |-> i]
Hole == [src |-> 0, idx |-> 0]
\* the audio the provider produced for call c once it streamed n chunks
Audio(c, n) == [i \in 1..n |-> Chunk(c, i)]

Exists(p) == p \in DOMAIN fs

\* open(p, "wb"): truncates the file at p, or creates it
OpenWb(p) == [q \in DOMAIN fs \cup {p} |-> IF q = p THEN <<>> ELSE fs[q]]

\* f.write(chunk) at the handle's own offset
PutAt(data, off, chunk) ==
    [i \in 1..(IF Len(data) > off + 1 THEN Len(data) ELSE off + 1) |->
        IF i = off + 1 THEN chunk
        ELSE IF i <= Len(data) THEN data[i] ELSE Hole]
\* a handle whose file was removed writes to a file no path names any more
FWrite(r, chunk) ==
    IF r.f = "open"
    THEN [fs EXCEPT ![r.file_name] = PutAt(fs[r.file_name], r.written, chunk)]
    ELSE fs

\* os.remove(p)
OsRemove(p) == [q \in DOMAIN fs \ {p} |-> fs[q]]
\* the handles other calls hold on a removed file outlive its name
Orphan(d, p) ==
    IF call[d].file_name = p /\ call[d].f = "open"
    THEN [call[d] EXCEPT !.f = "orphan"]
    ELSE call[d]

\* ------------------------------------------------- cache file naming
cache_dir == "cache"
DefaultExtension == "wav"
UniqueId == "uid" \o ToString(nextUid)
\* the fallback of some helpers: one fixed name for every call without a stem
GenerateCacheFileName_Temp(file_name_no_ext, file_extension) ==
    <<cache_dir,
      (IF file_name_no_ext = None THEN "temp" ELSE file_name_no_ext)
          \o "." \o file_extension>>
\* TTSInterface.generate_cache_file_name(file_name_no_ext, file_extension)
GenerateCacheFileName(file_name_no_ext, file_extension) ==
    <<cache_dir,
      (IF file_name_no_ext = None THEN UniqueId ELSE file_name_no_ext)
          \o "." \o file_extension>>
UidAfter(file_name_no_ext) ==
    IF file_name_no_ext = None THEN nextUid + 1 ELSE nextUid

\* ------------------------------------------------------------------ calls
Unset == [tag |-> "unset"]
RetNone == [tag |-> "None"]
RetStr(s) == [tag |-> "str", val |-> s]
NotInitialized == <<"Cartesia client not initialized. Cannot generate audio.">>

IdleCall ==
    [pc |-> "idle", kind |-> "none", text |-> "", file_name_no_ext |-> None,
     file_name |-> <<>>, f |-> "closed", written |-> 0, e |-> "none",
     rm_err |-> FALSE, ret |-> Unset, raised |-> "none",
     query_status |-> "none", synthesis_status |-> "none",
     query |-> NoJson, body |-> NoJson]

Active(c) == call[c].pc \notin {"idle", "done", "gone"}

\* the frame of call c on entry to generate_audio
Entered(c, kind, text, stem, file_name) ==
    [call[c] EXCEPT !.kind = kind, !.text = text, !.file_name_no_ext = stem,
                    !.file_name = file_name]

Set(c, r) == call' = [call EXCEPT ![c] = r]

\* ------------------------------------------------------------------- Init
UnbuiltCartesia ==
    [status |-> "unbuilt", error |-> "none", client |-> FALSE,
     output_format |-> "wav"]
UnbuiltPiper ==
    [status |-> "unbuilt", error |-> "none", load_attempted |-> FALSE,
     voice |-> FALSE, syn_config |-> FALSE]
UnbuiltVoicevox ==
    [status |-> "unbuilt", speed |-> 100, pitch |-> 0, intonation |-> 100,
     volume |-> 100, file_extension |-> "wav"]

InitCommon ==
    /\ call = [c \in Calls |-> IdleCall]
    /\ fs = <<>>
    /\ nextUid = 1

Init ==
    /\ CARTESIA_AVAILABLE \in BOOLEAN
    /\ PIPER_AVAILABLE \in BOOLEAN
    /\ model_on_disk \in BOOLEAN
    /\ cartesia = UnbuiltCartesia
    /\ piper = UnbuiltPiper
    /\ voicevox = UnbuiltVoicevox
    /\ cacheDir \in BOOLEAN
    /\ InitCommon

\* ----------------------------------------------------------- constructors
\* cartesia_tts.TTSEngine.__init__
CartesiaInit ==
    /\ cartesia.status = "unbuilt"
    /\ \E output_format \in OutputFormats, client_ok \in BOOLEAN :
          cartesia' =
            IF ~CARTESIA_AVAILABLE
            THEN [cartesia EXCEPT !.status = "failed", !.error = "ImportError"]
            ELSE IF ~client_ok
            THEN [cartesia EXCEPT !.status = "failed",
                                  !.error = "ClientError",
                                  !.client = FALSE,
                                  !.output_format = output_format]
            ELSE [cartesia EXCEPT !.status = "ready", !.client = TRUE,
                                  !.output_format = output_format]
    /\ UNCHANGED <<env, piper, voicevox, call, fs, cacheDir, nextUid>>

\* a constructor that goes straight to loading the model
PiperInit_NoExistsCheck ==
    /\ piper.status = "unbuilt"
    /\ \E load_ok \in BOOLEAN :
          piper' =
            IF ~PIPER_AVAILABLE
            THEN [piper EXCEPT !.status = "failed", !.error = "ImportError"]
            ELSE IF ~load_ok \/ ~model_on_disk
            THEN [piper EXCEPT !.status = "failed", !.error = "LoadError",
                               !.load_attempted = TRUE]
            ELSE [piper EXCEPT !.status = "ready", !.load_attempted = TRUE,
                               !.voice = TRUE, !.syn_config = TRUE]
    /\ UNCHANGED <<env, cartesia, voicevox, call, fs, cacheDir, nextUid>>

\* piper_tts.TTSEngine.__init__
PiperInit ==
    /\ piper.status = "unbuilt"
    /\ \E load_ok \in BOOLEAN :
          piper' =
            IF ~PIPER_AVAILABLE
            THEN [piper EXCEPT !.status = "failed", !.error = "ImportError"]
            ELSE IF ~model_on_disk
            THEN [piper EXCEPT !.status = "failed",
                               !.error = "FileNotFoundError"]
            ELSE IF ~load_ok
            THEN [piper EXCEPT !.status = "failed", !.error = "LoadError",
                               !.load_attempted = TRUE]
            ELSE [piper EXCEPT !.status = "ready", !.load_attempted = TRUE,
                               !.voice = TRUE, !.syn_config = TRUE]
    /\ UNCHANGED <<env, cartesia, voicevox, call, fs, cacheDir, nextUid>>

\* voicevox_tts.TTSEngine.__init__
VoicevoxInit ==
    /\ voicevox.status = "unbuilt"
    /\ \E speed \in SpeedValues :
          voicevox' = [voicevox EXCEPT !.status = "ready", !.speed = speed]
    /\ cacheDir' = TRUE
    /\ UNCHANGED <<env, cartesia, piper, call, fs, nextUid>>

\* --------------------------------------------- cartesia: generate_audio
\* a handler that re-raises without touching the file
CartesiaExcept_NoCleanup(c, r, e) ==
    /\ fs' = fs
    /\ Set(c, [r EXCEPT !.f = "closed", !.e = e, !.raised = e, !.pc = "done"])

\* a handler whose removal error escapes instead of being logged
CartesiaExcept_RaiseRmErr(c, r, e) ==
    \E removed \in BOOLEAN :
       LET there == Exists(r.file_name)
           unlinked == there /\ removed
       IN /\ fs' = IF unlinked THEN OsRemove(r.file_name) ELSE fs
          /\ call' = [d \in Calls |->
                IF d = c
                THEN [r EXCEPT !.f = "closed", !.e = e,
                               !.raised = IF there /\ ~removed
                                          THEN "RemoveError" ELSE e,
                               !.pc = "done"]
                ELSE IF unlinked THEN Orphan(d, r.file_name) ELSE call[d]]

\* a handler that clears the whole cache directory
CartesiaExcept_RemoveAll(c, r, e) ==
    /\ fs' = <<>>
    /\ call' = [d \in Calls |->
          IF d = c
          THEN [r EXCEPT !.f = "closed", !.e = e, !.raised = e, !.pc = "done"]
          ELSE IF call[d].f = "open"
          THEN [call[d] EXCEPT !.f = "orphan"] ELSE call[d]]

\* except Exception as e: remove the incomplete file, raise e.
\* r is the frame when the exception e is caught.
CartesiaExcept(c, r, e) ==
    \E removed \in BOOLEAN :
       LET there == Exists(r.file_name)
           unlinked == there /\ removed
       IN /\ fs' = IF unlinked THEN OsRemove(r.file_name) ELSE fs
          /\ call' = [d \in Calls |->
                IF d = c
                THEN [r EXCEPT !.f = "closed", !.e = e,
                               !.rm_err = there /\ ~removed,
                               !.raised = e, !.pc = "done"]
                ELSE IF unlinked THEN Orphan(d, r.file_name) ELSE call[d]]

\* entry: client guard, target path, self.client.tts.bytes(...),
\* open(speech_file_path, "wb")
CartesiaStart(c) ==
    /\ call[c].pc = "idle"
    /\ cartesia.status = "ready"
    /\ \E text \in Texts, stem \in Stems \cup {None},
          outcome \in {"opened", "VendorError", "OSError"} :
          IF ~cartesia.client
          THEN /\ Set(c, [Entered(c, "cartesia", text, stem, <<>>)
                            EXCEPT !.ret = RetStr(NotInitialized), !.pc = "done"])
               /\ UNCHANGED <<fs, cacheDir, nextUid>>
          ELSE LET r == Entered(c, "cartesia", text, stem,
                          GenerateCacheFileName(stem, cartesia.output_format))
               IN /\ cacheDir' = TRUE
                  /\ nextUid' = UidAfter(stem)
                  /\ IF outcome = "opened"
                     THEN /\ fs' = OpenWb(r.file_name)
                          /\ Set(c, [r EXCEPT !.f = "open", !.pc = "write"])
                     ELSE CartesiaExcept(c, r, outcome)
    /\ UNCHANGED <<env, engines>>

\* for chunk in audio: f.write(chunk)   (one iteration)
CartesiaWrite(c) ==
    /\ call[c].kind = "cartesia" /\ call[c].pc = "write"
    /\ \E outcome \in {"chunk", "VendorError", "OSError"} :
          IF outcome = "chunk"
          THEN /\ call[c].written < MaxChunks
               /\ fs' = FWrite(call[c], Chunk(c, call[c].written + 1))
               /\ Set(c, [call[c] EXCEPT !.written = @ + 1])
          ELSE CartesiaExcept(c, call[c], outcome)
    /\ UNCHANGED <<env, engines, cacheDir, nextUid>>

\* a return of the stem instead of the path
CartesiaReturn_Stem(c) ==
    /\ call[c].kind = "cartesia" /\ call[c].pc = "write"
    /\ Set(c, [call[c] EXCEPT !.f = "closed",
                              !.ret = RetStr(<<cache_dir, call[c].file_name_no_ext>>),
                              !.pc = "done"])
    /\ UNCHANGED <<env, engines, fs, cacheDir, nextUid>>

\* the stream is exhausted: the file is closed and the path returned
CartesiaReturn(c) ==
    /\ call[c].kind = "cartesia" /\ call[c].pc = "write"
    /\ Set(c, [call[c] EXCEPT !.f = "closed",
                              !.ret = RetStr(call[c].file_name), !.pc = "done"])
    /\ UNCHANGED <<env, engines, fs, cacheDir, nextUid>>

\* ------------------------------------------------ piper: generate_audio
\* a handler that lets the exception through
ReturnNone_Reraise(r, e) ==
    [r EXCEPT !.f = "closed", !.e = e, !.raised = e, !.pc = "done"]

\* except Exception as e: log, return None
ReturnNone(r, e) ==
    [r EXCEPT !.f = "closed", !.e = e, !.ret = RetNone, !.pc = "done"]

\* entry: target path, wave.open(file_name, "wb")
PiperStart(c) ==
    /\ call[c].pc = "idle"
    /\ piper.status = "ready"
    /\ \E text \in Texts, stem \in Stems \cup {None}, ok \in BOOLEAN :
          LET r == Entered(c, "piper", text, stem,
                     GenerateCacheFileName(stem, DefaultExtension))
          IN /\ nextUid' = UidAfter(stem)
             /\ IF ok
                THEN /\ fs' = OpenWb(r.file_name)
                     /\ Set(c, [r EXCEPT !.f = "open", !.pc = "synthesize"])
                ELSE /\ Set(c, ReturnNone(r, "OSError"))
                     /\ UNCHANGED fs
    /\ cacheDir' = TRUE
    /\ UNCHANGED <<env, engines>>

\* self.voice.synthesize_wav(text, wav_file, syn_config): one block of
\* samples, the end of the utterance, or an inference/write error
PiperSynthesize(c) ==
    /\ call[c].kind = "piper" /\ call[c].pc = "synthesize"
    /\ \E outcome \in {"chunk", "end", "InferenceError", "OSError"} :
          IF outcome = "chunk"
          THEN /\ call[c].written < MaxChunks
               /\ fs' = FWrite(call[c], Chunk(c, call[c].written + 1))
               /\ Set(c, [call[c] EXCEPT !.written = @ + 1])
          ELSE IF outcome = "end"
          THEN /\ Set(c, [call[c] EXCEPT !.f = "closed",
                                         !.ret = RetStr(call[c].file_name),
                                         !.pc = "done"])
               /\ UNCHANGED fs
          ELSE /\ Set(c, ReturnNone(call[c], outcome))
               /\ UNCHANGED fs
    /\ UNCHANGED <<env, engines, cacheDir, nextUid>>

\* --------------------------------------------- voicevox: generate_audio
\* an adjustment that forgets the speed
AdjustParameters_NoSpeed(audio_query) ==
    [fld \in DOMAIN audio_query \cup ScaleFields |->
        IF fld = "pitchScale" THEN voicevox.pitch
        ELSE IF fld = "intonationScale" THEN voicevox.intonation
        ELSE IF fld = "volumeScale" THEN voicevox.volume
        ELSE IF fld \in DOMAIN audio_query THEN audio_query[fld]
        ELSE 100]

\* the four scale fields overwritten with the configured values
AdjustParameters(audio_query) ==
    [fld \in DOMAIN audio_query \cup ScaleFields |->
        IF fld = "speedScale" THEN voicevox.speed
        ELSE IF fld = "pitchScale" THEN voicevox.pitch
        ELSE IF fld = "intonationScale" THEN voicevox.intonation
        ELSE IF fld = "volumeScale" THEN voicevox.volume
        ELSE audio_query[fld]]

HttpError(status) ==
    IF status = "neterr" THEN "ConnectError" ELSE "HTTPStatusError"

\* POST /audio_query, raise_for_status, response.json(), the adjustment,
\* POST /synthesis with json=audio_query, raise_for_status.
\* The frame after the two requests: at "open", or returned None.
VoicevoxRequests(r, query_status, json, synthesis_status) ==
    IF query_status # "2xx"
    THEN ReturnNone([r EXCEPT !.query_status = query_status],
                    HttpError(query_status))
    ELSE IF json.kind = "notjson"
    THEN ReturnNone([r EXCEPT !.query_status = query_status],
                    "JSONDecodeError")
    ELSE IF json.kind # "dict"
    THEN ReturnNone([r EXCEPT !.query_status = query_status, !.query = json],
                    "TypeError")
    ELSE LET sent == [r EXCEPT !.query_status = query_status,
                               !.query = json,
                               !.body = [kind |-> "dict",
                                         obj |-> AdjustParameters(json.obj)],
                               !.synthesis_status = synthesis_status]
         IN IF synthesis_status # "2xx"
            THEN ReturnNone(sent, HttpError(synthesis_status))
            ELSE [sent EXCEPT !.pc = "open"]

\* an entry that opens the target before it talks to the server
VoicevoxStart_OpenFirst(c) ==
    /\ call[c].pc = "idle"
    /\ voicevox.status = "ready"
    /\ \E text \in Texts, stem \in Stems \cup {None},
          query_status \in HttpOutcomes, json \in QueryBodies,
          synthesis_status \in HttpOutcomes :
          LET r == VoicevoxRequests(
                     Entered(c, "voicevox", text, stem,
                             GenerateCacheFileName(stem, voicevox.file_extension)),
                     query_status, json, synthesis_status)
          IN /\ nextUid' = UidAfter(stem)
             /\ fs' = OpenWb(r.file_name)
             /\ IF r.pc = "done"
                THEN Set(c, r)
                ELSE Set(c, [r EXCEPT !.f = "open", !.pc = "write"])
    /\ cacheDir' = TRUE
    /\ UNCHANGED <<env, engines>>

\* entry: target path, the two requests, open(file_name, "wb")
VoicevoxStart(c) ==
    /\ call[c].pc = "idle"
    /\ voicevox.status = "ready"
    /\ \E text \in Texts, stem \in Stems \cup {None},
          query_status \in HttpOutcomes, json \in QueryBodies,
          synthesis_status \in HttpOutcomes, ok \in BOOLEAN :
          LET r == VoicevoxRequests(
                     Entered(c, "voicevox", text, stem,
                             GenerateCacheFileName(stem, voicevox.file_extension)),
                     query_status, json, synthesis_status)
          IN /\ nextUid' = UidAfter(stem)
             /\ IF r.pc = "done"
                THEN /\ Set(c, r)
                     /\ UNCHANGED fs
                ELSE IF ok
                THEN /\ fs' = OpenWb(r.file_name)
                     /\ Set(c, [r EXCEPT !.f = "open", !.pc = "write"])
                ELSE /\ Set(c, ReturnNone(r, "OSError"))
                     /\ UNCHANGED fs
    /\ cacheDir' = TRUE
    /\ UNCHANGED <<env, engines>>

\* f.write(response.content); return file_name
VoicevoxWrite(c) ==
    /\ call[c].kind = "voicevox" /\ call[c].pc = "write"
    /\ \E ok \in BOOLEAN :
          IF ok
          THEN /\ fs' = FWrite(call[c], Chunk(c, 1))
               /\ Set(c, [call[c] EXCEPT !.written = 1, !.f = "closed",
                                         !.ret = RetStr(call[c].file_name),
                                         !.pc = "done"])
          ELSE /\ Set(c, ReturnNone(call[c], "OSError"))
               /\ UNCHANGED fs
    /\ UNCHANGED <<env, engines, cacheDir, nextUid>>

\* ------------------------------------------------------- specifications
\* the caller has taken the result (or the exception): the locals of the
\* call are gone, only the path it targeted is remembered
Release(c) ==
    /\ call[c].pc = "done"
    /\ Set(c, [IdleCall EXCEPT !.pc = "gone", !.file_name = call[c].file_name])
    /\ UNCHANGED <<env, engines, fs, cacheDir, nextUid>>

\* calls are numbered in the order they are issued
Issued(c) == \A d \in Calls : d < c => call[d].pc # "idle"
\* the caller builds its engines first
Constructed ==
    /\ cartesia.status # "unbuilt"
    /\ piper.status # "unbuilt"
    /\ voicevox.status # "unbuilt"
\* a caller that waits for each call to return before making the next
Sequential(c) ==
    /\ Constructed
    /\ Issued(c)
    /\ \A d \in Calls \ {c} : call[d].pc \in {"idle", "gone"}

Next ==
    \/ CartesiaInit
    \/ PiperInit
    \/ VoicevoxInit
    \/ \E c \in Calls : Sequential(c) /\ CartesiaStart(c)
    \/ \E c \in Calls : Sequential(c) /\ CartesiaWrite(c)
    \/ \E c \in Calls : Sequential(c) /\ CartesiaReturn(c)
    \/ \E c \in Calls : Sequential(c) /\ PiperStart(c)
    \/ \E c \in Calls : Sequential(c) /\ PiperSynthesize(c)
    \/ \E c \in Calls : Sequential(c) /\ VoicevoxStart(c)
    \/ \E c \in Calls : Sequential(c) /\ VoicevoxWrite(c)
    \/ \E c \in Calls : Release(c)

Spec == Init /\ [][Next]_vars

\* the three engines constructed, their calls issued from several workers
ConcInit ==
    /\ CARTESIA_AVAILABLE = TRUE
    /\ PIPER_AVAILABLE = TRUE
    /\ model_on_disk = TRUE
    /\ \E output_format \in OutputFormats :
          cartesia = [UnbuiltCartesia EXCEPT !.status = "ready", !.client = TRUE,
                                             !.output_format = output_format]
    /\ piper = [UnbuiltPiper EXCEPT !.status = "ready", !.load_attempted = TRUE,
                                    !.voice = TRUE, !.syn_config = TRUE]
    /\ voicevox = [UnbuiltVoicevox EXCEPT !.status = "ready"]
    /\ cacheDir = TRUE
    /\ InitCommon

\* workers that make their calls in any interleaving; a returned result is
\* taken before another call moves on
Concurrent(c) ==
    /\ Issued(c)
    /\ \A d \in Calls \ {c} : call[d].pc # "done"

ConcNext ==
    \/ \E c \in Calls : Concurrent(c) /\ CartesiaStart(c)
    \/ \E c \in Calls : Concurrent(c) /\ CartesiaWrite(c)
    \/ \E c \in Calls : Concurrent(c) /\ CartesiaReturn(c)
    \/ \E c \in Calls : Concurrent(c) /\ PiperStart(c)
    \/ \E c \in Calls : Concurrent(c) /\ PiperSynthesize(c)
    \/ \E c \in Calls : Concurrent(c) /\ VoicevoxStart(c)
    \/ \E c \in Calls : Concurrent(c) /\ VoicevoxWrite(c)
    \/ \E c \in Calls : Release(c)

ConcSpec == ConcInit /\ [][ConcNext]_vars

\* ----------------------------------------------------------------- claims
Path(c) == call'[c].file_name
\* call c ends in this step
Ends(c) == call[c].pc \notin {"done", "gone"} /\ call'[c].pc = "done"
\* call c is entered in this step
Starts(c) == call[c].pc = "idle" /\ call'[c].pc # "idle"
\* call c ends in this step by returning a path
ReturnsPath(c) == Ends(c) /\ call'[c].e = "none" /\ call'[c].ret.tag = "str"
\* the file at the target of c holds exactly what the provider produced for c
Complete(c) ==
    /\ Path(c) \in DOMAIN fs'
    /\ fs'[Path(c)] = Audio(c, call'[c].written)
ConfiguredExtension(kind) ==
    IF kind = "cartesia" THEN cartesia.output_format
    ELSE IF kind = "voicevox" THEN voicevox.file_extension
    ELSE DefaultExtension

\* the cloud call ends because the vendor request, the stream or a write raised
CartesiaFails(c) ==
    /\ call'[c].kind = "cartesia"
    /\ Ends(c)
    /\ call'[c].e # "none"
    /\ (call[c].pc = "write" \/ call'[c].e = "VendorError")

C2_FailureReturnsNone ==
    \A c \in Calls :
       (call[c].kind \in {"piper", "voicevox"} /\ call[c].pc = "done") =>
          /\ call[c].raised = "none"
          /\ (call[c].e # "none" => call[c].ret = RetNone)
          /\ (call[c].e = "none" => call[c].ret = RetStr(call[c].file_name))

\* a voicevox call whose synthesis request got a non-2xx answer returned None
C2_Witness ==
    \E c \in Calls :
       /\ call[c].kind = "voicevox" /\ call[c].pc = "done"
       /\ call[c].synthesis_status = "non2xx"
       /\ call[c].e = "HTTPStatusError"
       /\ call[c].ret = RetNone

\* C3 (as claimed): for every adapter, a call that fails after it opened the
\* target file for writing leaves no file at the target path when it ends.
C3_NoPartialFileLeft ==
    [][\A c \in Calls :
          (Ends(c) /\ call'[c].e # "none" /\ call[c].f = "open") =>
             Path(c) \notin DOMAIN fs']_vars

\* C4: a call is entered with the target generate_cache_file_name gives for
\* (stem, configured extension); a call that succeeds returns that target,
\* the file there holds the complete audio of the call, and no step of the
\* call creates, changes or removes any other file.
C4_OneFileAtDerivedPath ==
    [][\A c \in Calls :
          /\ (Starts(c) /\ call'[c].file_name # <<>>) =>
                Path(c) = GenerateCacheFileName(call'[c].file_name_no_ext,
                                                ConfiguredExtension(call'[c].kind))
          /\ ReturnsPath(c) =>
                /\ call'[c].ret.val = call[c].file_name
                /\ Complete(c)
          /\ (call'[c] # call[c] /\ call'[c].pc # "gone") =>
                \A q \in (DOMAIN fs \cup DOMAIN fs') \ {Path(c)} :
                   q \in DOMAIN fs /\ q \in DOMAIN fs' /\ fs'[q] = fs[q]]_vars

\* a call returned the path of its complete file beside the file of an
\* earlier call
C4_Witness ==
    \E c \in Calls :
       /\ call[c].pc = "done" /\ call[c].ret = RetStr(call[c].file_name)
       /\ call[c].written = MaxChunks
       /\ call[c].file_name \in DOMAIN fs
       /\ fs[call[c].file_name] = Audio(c, MaxChunks)
       /\ Cardinality(DOMAIN fs) >= 2

\* C5 (as claimed): in any interleaving of calls against the cloud and
\* HTTP-server adapters, a call that returns a path returns the path of a
\* file that exists and holds that call's complete audio.
C5_ReturnedFileIntact ==
    [][\A c \in Calls :
          (call'[c].kind \in {"cartesia", "voicevox"} /\ ReturnsPath(c)) =>
             Complete(c)]_vars

\* C5 (amended): in any interleaving, calls leave the engines' state alone,
\* and a cloud or HTTP-server call that returns a path no other call of the
\* run targeted returns the path of a file that exists and holds that call's
\* complete audio.
C5_ReturnedFileIntactIfPathUnshared ==
    [][/\ engines' = engines
       /\ \A c \in Calls :
             (/\ call'[c].kind \in {"cartesia", "voicevox"}
              /\ ReturnsPath(c)
              /\ \A d \in Calls \ {c} : call[d].file_name # Path(c)) =>
                Complete(c)]_vars

\* a call returned its complete file while another call, still writing, has
\* another target
C5_Witness ==
    \E c, d \in Calls :
       /\ c # d
       /\ call[c].kind \in {"cartesia", "voicevox"}
       /\ call[d].kind \in {"cartesia", "voicevox"}
       /\ call[c].pc = "done" /\ call[c].ret = RetStr(call[c].file_name)
       /\ call[d].pc = "write" /\ call[d].written >= 1
       /\ call[d].file_name # call[c].file_name
       /\ call[c].file_name \in DOMAIN fs
       /\ fs[call[c].file_name] = Audio(c, call[c].written)

\* C6: calls of one adapter that were given no stem and are in progress or
\* just returned have pairwise distinct target paths.
C6_NoStemPathsDistinct ==
    \A c, d \in Calls :
       (/\ c # d
        /\ call[c].pc \notin {"idle", "gone"}
        /\ call[d].pc \notin {"idle", "gone"}
        /\ call[c].kind = call[d].kind
        /\ call[c].file_name_no_ext = None
        /\ call[d].file_name_no_ext = None) =>
          call[c].file_name # call[d].file_name

\* two calls of the HTTP-server adapter without a stem write at the same time
C6_Witness ==
    \E c, d \in Calls :
       /\ c # d
       /\ call[c].kind = "voicevox" /\ call[d].kind = "voicevox"
       /\ call[c].pc = "write" /\ call[d].pc = "write"
       /\ call[c].file_name_no_ext = None
       /\ call[d].file_name_no_ext = None

\* C7: once the local-model constructor has run with no model file on disk it
\* has failed with a configuration error (the missing dependency or the
\* missing file), the model load was never attempted, no synthesis
\* configuration was built, and no call runs on the adapter.
C7_MissingModelFailsFast ==
    (~model_on_disk /\ piper.status # "unbuilt") =>
       /\ piper.status = "failed"
       /\ piper.error = (IF PIPER_AVAILABLE THEN "FileNotFoundError"
                         ELSE "ImportError")
       /\ ~piper.load_attempted
       /\ ~piper.voice
       /\ ~piper.syn_config
       /\ \A c \in Calls : call[c].kind # "piper"

\* the constructor found the dependency but not the model file, and calls
\* went on with another adapter
C7_Witness ==
    /\ ~model_on_disk /\ PIPER_AVAILABLE
    /\ piper.status = "failed" /\ piper.error = "FileNotFoundError"
    /\ \E c \in Calls : call[c].pc = "done"

\* C8: the HTTP-server adapter sends the synthesis request only after a 2xx
\* audio query; its JSON body is the returned object with the four scale
\* fields set to the configured values and every other field as returned; a
\* successful call with stem s returns a path that ends in s.wav.
C8_SynthesisBodyAndPath ==
    \A c \in Calls :
       call[c].kind = "voicevox" =>
          /\ call[c].synthesis_status # "none" =>
                /\ call[c].query_status = "2xx"
                /\ call[c].query.kind = "dict"
                /\ call[c].body.kind = "dict"
                /\ DOMAIN call[c].body.obj =
                      DOMAIN call[c].query.obj \cup ScaleFields
                /\ call[c].body.obj["speedScale"] = voicevox.speed
                /\ call[c].body.obj["pitchScale"] = voicevox.pitch
                /\ call[c].body.obj["intonationScale"] = voicevox.intonation
                /\ call[c].body.obj["volumeScale"] = voicevox.volume
                /\ \A fld \in DOMAIN call[c].query.obj \ ScaleFields :
                      call[c].body.obj[fld] = call[c].query.obj[fld]
          /\ (/\ call[c].pc = "done"
              /\ call[c].ret.tag = "str"
              /\ call[c].file_name_no_ext # None) =>
                call[c].ret.val[Len(call[c].ret.val)] =
                   call[c].file_name_no_ext \o ".wav"

\* the adapter built with speed 1.2 returned greet.wav after the server had
\* answered the query with another speedScale
C8_Witness ==
    \E c \in Calls :
       /\ call[c].kind = "voicevox" /\ call[c].pc = "done"
       /\ voicevox.speed = 120
       /\ call[c].query = FullQuery
       /\ call[c].body.obj["speedScale"] = 120
       /\ call[c].ret = RetStr(<<"cache", "greet.wav">>)

C10_FailedRequestsLeaveFilesAlone ==
    [][\A c \in Calls :
          call'[c].kind = "voicevox" =>
             /\ (call'[c].f = "open" => call'[c].synthesis_status = "2xx")
             /\ (call'[c].query_status # "2xx" =>
                    call'[c].synthesis_status = "none")
             /\ (/\ Ends(c)
                 /\ \/ call'[c].query_status \in {"neterr", "non2xx"}
                    \/ call'[c].synthesis_status \in {"neterr", "non2xx"}) =>
                   /\ fs' = fs
                   /\ cacheDir' = cacheDir]_vars

\* a synthesis request failed and the file an earlier call had left at the
\* target still holds its audio
C10_Witness ==
    \E c \in Calls :
       /\ call[c].kind = "voicevox" /\ call[c].pc = "done"
       /\ call[c].synthesis_status = "non2xx"
       /\ call[c].file_name \in DOMAIN fs
       /\ Len(fs[call[c].file_name]) >= 1

====
